---- MODULE Spec2Model ----
(***************************************************************************)
(* Batch image-optimization pipeline of imageopt: intake of uploaded       *)
(* files (processUploadedFiles), the per-image transform and the chunked   *)
(* batch optimizer (useImageOptimizer), the object-URL handle table and    *)
(* the pure helpers of utils/imageUtils.ts.                                *)
(***************************************************************************)
EXTENDS Integers, Sequences, FiniteSets, TLC

VARIABLES
    appState,       \* App.tsx: useState<AppState>
    imageFiles,     \* App.tsx: useState<ImageFile[]>, a sequence of records
    completionData, \* App.tsx: useState<CompletionData | null>, <<>> or <<data>>
    settings,       \* App.tsx: useState<OptimizationSettings>
    aiSuggestion,   \* App.tsx: useState<AiSuggestion | null>, <<>> or <<suggestion>>
    liveUrls,       \* object URLs created and not yet revoked
    nextUrl,        \* the next object URL the platform hands out
    opt,            \* the running/settled call of optimizeAndZip
    intake,         \* the running/settled call of processUploadedFiles
    calc,           \* input and result of one call of calculateOptimalDimensions
    ai,             \* the running/settled call of getOptimizationSuggestion
    naming,         \* input and result of one call of generateOptimizedFileName
    loads           \* the calls of loadImageFromFile made on their own, with their events

vars == <<appState, imageFiles, completionData, settings, aiSuggestion, liveUrls,
          nextUrl, opt, intake, calc, ai, naming, loads>>

(***************************************************************************)
(* Bounds of the model.                                                    *)
(***************************************************************************)
MaxDim == 6
MaxFiles == 7
MaxZipSize == 2
MaxUpload == 3
MaxArchives == 1
MaxRequests == 2
MaxNameParts == 3
MaxAttempts == 2
MaxRetryFiles == 2
MaxLoads == 2
MaxAppOps == 3

(***************************************************************************)
(* Sequence helpers.                                                       *)
(***************************************************************************)
Min(a, b) == IF a <= b THEN a ELSE b

Max(a, b) == IF a >= b THEN a ELSE b

\* Mutant: only the first record is counted.
SumSizesOfFirst(s) == IF s = <<>> THEN 0 ELSE s[1].size

\* calculateTotalSize: images.reduce((total, img) => total + img.size, 0)
RECURSIVE SumSizes(_)
SumSizes(s) == IF s = <<>> THEN 0 ELSE s[1].size + SumSizes(Tail(s))

(***************************************************************************)
(* utils/imageUtils.ts: constants and validators.                          *)
(***************************************************************************)
SUPPORTED_IMAGE_TYPES == {"image/jpeg", "image/png", "image/webp", "image/gif"}

MAX_FILE_SIZE == 52428800

isValidImageType(file) == file.type \in SUPPORTED_IMAGE_TYPES

isValidFileSize(file) == file.size <= MAX_FILE_SIZE

(***************************************************************************)
(* File names are sequences of characters.  String.lastIndexOf returns the *)
(* 0-based index of the last occurrence or -1; String.substring clamps its *)
(* arguments to [0, length] and swaps them when start > end.               *)
(***************************************************************************)
lastIndexOf(s, c) ==
    IF \E i \in 1..Len(s) : s[i] = c
    THEN (CHOOSE i \in 1..Len(s) : s[i] = c /\ \A j \in (i + 1)..Len(s) : s[j] # c) - 1
    ELSE -1

substring(s, start, end) ==
    LET a == Max(0, Min(start, Len(s)))
        b == Max(0, Min(end, Len(s)))
    IN SubSeq(s, Min(a, b) + 1, Max(a, b))

FormatChars(format) ==
    CASE format = "jpeg" -> <<"j", "p", "e", "g">>
      [] format = "png"  -> <<"p", "n", "g">>
      [] format = "webp" -> <<"w", "e", "b", "p">>

OptimizedMarker == <<"-", "o", "p", "t", "i", "m", "i", "z", "e", "d", ".">>

\* Mutant: the '-optimized' marker is left out, only the extension changes.
generateOptimizedFileNameNoMarker(originalName, format) ==
    substring(originalName, 0, lastIndexOf(originalName, ".")) \o <<".">> \o FormatChars(format)

generateOptimizedFileName(originalName, format) ==
    LET nameWithoutExt == substring(originalName, 0, lastIndexOf(originalName, "."))
    IN nameWithoutExt \o OptimizedMarker \o FormatChars(format)

(***************************************************************************)
(* utils/imageUtils.ts: calculateOptimalDimensions.                        *)
(* Math.round(originalHeight * ratio) with ratio = maxWidth/originalWidth  *)
(* computed in IEEE doubles.  Math.round rounds a half upwards; when the   *)
(* exact product is k + 1/2 the double product can come out one ulp below  *)
(* (45 * (7/10) = 31.499999999999996), which rounds to k.  fpLow is that   *)
(* outcome of the double arithmetic; it matters at exact halves only.      *)
(***************************************************************************)
IsExactHalf(num, den) == (2 * num) % den = 0 /\ ((2 * num) \div den) % 2 = 1

MathRoundRatio(num, den, fpLow) ==
    IF IsExactHalf(num, den) /\ fpLow
    THEN num \div den
    ELSE (2 * num + den) \div (2 * den)

\* Mutant: the width test is dropped, every image is scaled to maxWidth.
calculateOptimalDimensionsAlwaysScaled(originalWidth, originalHeight, maxWidth, fpLow) ==
    [width |-> maxWidth,
     height |-> MathRoundRatio(originalHeight * maxWidth, originalWidth, fpLow)]

\* Mutant: Math.floor in place of Math.round.
calculateOptimalDimensionsFloored(originalWidth, originalHeight, maxWidth, fpLow) ==
    IF originalWidth <= maxWidth
    THEN [width |-> originalWidth, height |-> originalHeight]
    ELSE [width |-> maxWidth, height |-> (originalHeight * maxWidth) \div originalWidth]

calculateOptimalDimensions(originalWidth, originalHeight, maxWidth, fpLow) ==
    IF originalWidth <= maxWidth
    THEN [width |-> originalWidth, height |-> originalHeight]
    ELSE [width |-> maxWidth,
          height |-> MathRoundRatio(originalHeight * maxWidth, originalWidth, fpLow)]

(***************************************************************************)
(* Idle values of the state a specification does not use.                  *)
(***************************************************************************)
DefaultSettings == [quality |-> 85, maxWidth |-> 1920, format |-> "webp"]

IdleCalc == [w |-> 1, h |-> 1, maxWidth |-> 1, fpLow |-> FALSE, done |-> FALSE,
             width |-> 0, height |-> 0]

\* opt.clicks is the number of times Optimize will still be clicked;
\* opt.orphans are the temporary URLs of loads that earlier, failed calls of
\* optimizeAndZip have left running.
IdleOpt == [pc |-> "idle", files |-> <<>>, settings |-> DefaultSettings, chunk |-> 0,
            items |-> <<>>, zip |-> <<>>, error |-> <<>>, blob |-> <<>>,
            clicks |-> 1, orphans |-> {}]

IdleIntake == [pc |-> "idle", fileList |-> <<>>, cursor |-> 0, processedFiles |-> <<>>,
               items |-> <<>>, error |-> <<>>, uploads |-> 1, orphans |-> {}]

IdleAi == [pc |-> "idle", apiKey |-> FALSE, tmpUrl |-> 0, requests |-> 0, cause |-> "",
           response |-> <<>>, settingsBefore |-> DefaultSettings]

IdleNaming == [originalName |-> <<>>, format |-> "webp", done |-> FALSE, fileName |-> <<>>]

\* The ImageFile record fileToImageFile builds for a file, with its object URL.
ImageFileOf(file, url) ==
    [file |-> file, name |-> file.name, size |-> file.size,
     dimensions |-> [width |-> file.width, height |-> file.height],
     objectUrl |-> url]

(***************************************************************************)
(* hooks/useImageOptimizer.ts: optimizeSingleImage and optimizeAndZip.     *)
(*                                                                         *)
(* opt.items[i] follows record i of the call: "pending" (its chunk has not *)
(* been started), "loading" (loadImageFromFile awaits the image event),    *)
(* "encoding" (canvas.toBlob awaits its callback), "ok" or "failed".       *)
(* opt.pc is the call itself: "running" (awaiting Promise.all of chunk     *)
(* opt.chunk), "generating" (awaiting zip.generateAsync), "resolved",      *)
(* "rejected", or "null" (empty input).                                    *)
(***************************************************************************)
BATCH_SIZE == 5

BatchIndices(k, n) == ((k - 1) * BATCH_SIZE + 1)..Min(k * BATCH_SIZE, n)

NumBatches(n) == (n + BATCH_SIZE - 1) \div BATCH_SIZE

PendingItem == [status |-> "pending", stage |-> "", tmpUrl |-> 0,
                width |-> 0, height |-> 0, name |-> <<>>]

\* loadImageFromFile up to the point where it waits for the image: a file of
\* an unsupported type or above MAX_FILE_SIZE is rejected without an object
\* URL; any other file gets one temporary object URL.
LoadAccepts(file) == isValidImageType(file) /\ isValidFileSize(file)

\* Mutant: the image is loaded through the record's own object URL.
TmpUrlForRecordUrl(files, idx, i, next) == files[i].objectUrl

\* The object URL created for the p-th of the files started together, when
\* `next` is the first free URL: rejected files take none.
TmpUrlFor(files, idx, i, next) ==
    next + Cardinality({j \in idx : j < i /\ LoadAccepts(files[j].file)})

\* batch.map(imageFile => optimizeSingleImage(imageFile, settings)): every
\* item of chunk k runs up to its first await.  A rejection of
\* loadImageFromFile is caught and rethrown with stage 'optimization'.
StartBatch(o, k, next) ==
    LET idx == BatchIndices(k, Len(o.files))
    IN [o EXCEPT
          !.chunk = k,
          !.items = [i \in 1..Len(o.files) |->
                       IF i \notin idx THEN o.items[i]
                       ELSE IF LoadAccepts(o.files[i].file)
                       THEN [PendingItem EXCEPT !.status = "loading",
                                                !.tmpUrl = TmpUrlFor(o.files, idx, i, next)]
                       ELSE [PendingItem EXCEPT !.status = "failed",
                                                !.stage = "optimization"]]]

BatchUrls(o, k, next) ==
    {TmpUrlFor(o.files, BatchIndices(k, Len(o.files)), i, next) :
        i \in {j \in BatchIndices(k, Len(o.files)) : LoadAccepts(o.files[j].file)}}

\* zip.file(name, blob): JSZip keeps one entry per name; a second blob under
\* the same name replaces the first and keeps its place.
ZipFile(zip, name, item) ==
    IF \E p \in 1..Len(zip) : zip[p].name = name
    THEN [p \in 1..Len(zip) |->
            IF zip[p].name = name THEN [name |-> name, item |-> item] ELSE zip[p]]
    ELSE Append(zip, [name |-> name, item |-> item])

\* Mutant: the results of a chunk are added last record first.
RECURSIVE AddResultsLastFirst(_, _, _, _)
AddResultsLastFirst(zip, items, from, to) ==
    IF from > to THEN zip
    ELSE AddResultsLastFirst(ZipFile(zip, items[to].name, to), items, from, to - 1)

\* batchResults.forEach(({name, blob}) => zip.file(name, blob)), in the order
\* of the chunk's records.
RECURSIVE AddResults(_, _, _, _)
AddResults(zip, items, from, to) ==
    IF from > to THEN zip
    ELSE AddResults(ZipFile(zip, items[from].name, from), items, from + 1, to)

\* Promise.all over the chunk's promises settles like this: it rejects with
\* the first rejection, and resolves once every promise has resolved.
\* Mutant: the join fails only when every item of the chunk has failed.
JoinRejectsWhenAllFailed(o) ==
    o.pc = "running" /\ \A i \in BatchIndices(o.chunk, Len(o.files)) : o.items[i].status = "failed"

\* Mutant: the join waits for every item to settle before it fails.
JoinRejectsAfterAllSettled(o) ==
    /\ o.pc = "running"
    /\ \E i \in BatchIndices(o.chunk, Len(o.files)) : o.items[i].status = "failed"
    /\ \A i \in BatchIndices(o.chunk, Len(o.files)) : o.items[i].status \in {"ok", "failed"}

\* Mutant: the join resolves as soon as one item of the chunk has resolved.
JoinResolvesOnFirst(o) ==
    o.pc = "running" /\ \E i \in BatchIndices(o.chunk, Len(o.files)) : o.items[i].status = "ok"

JoinRejects(o) ==
    o.pc = "running" /\ \E i \in BatchIndices(o.chunk, Len(o.files)) : o.items[i].status = "failed"

JoinResolves(o) ==
    o.pc = "running" /\ \A i \in BatchIndices(o.chunk, Len(o.files)) : o.items[i].status = "ok"

\* Mutant: the error is created without the file name, as the one of
\* createOptimizedCanvas is.
ItemErrorWithoutName(o, i) == [fileName |-> <<>>, stage |-> o.items[i].stage, item |-> i]

\* The rejection the caller sees: createProcessingError(message, fileName, stage).
ItemError(o, i) == [fileName |-> o.files[i].name, stage |-> o.items[i].stage, item |-> i]

\* The first record of the current chunk whose promise is rejected before it
\* waits for anything (0 when there is none): its rejection is the first the
\* join sees.
FirstFailed(o) ==
    LET bad == {i \in BatchIndices(o.chunk, Len(o.files)) : o.items[i].status = "failed"}
    IN IF bad = {} THEN 0 ELSE CHOOSE i \in bad : \A j \in bad : i <= j

\* What follows the settling of item `by` in optimizeAndZip and, through the
\* await in handleOptimize, in the App: the state after all promise reactions
\* have run.  Returns the call, the URLs created by a newly started chunk and
\* the App's state.
RECURSIVE Continue(_, _, _)
Continue(o, by, next) ==
    IF JoinRejects(o)
    THEN [o |-> [o EXCEPT !.pc = "rejected", !.error = <<ItemError(o, by)>>],
          created |-> {}]
    ELSE IF JoinResolves(o)
    THEN LET n == Len(o.files)
             lo == (o.chunk - 1) * BATCH_SIZE + 1
             hi == Min(o.chunk * BATCH_SIZE, n)
             zipped == [o EXCEPT !.zip = AddResults(o.zip, o.items, lo, hi)]
         IN IF o.chunk < NumBatches(n)
            THEN LET started == StartBatch(zipped, o.chunk + 1, next)
                     urls == BatchUrls(zipped, o.chunk + 1, next)
                     rest == Continue(started, FirstFailed(started), next + Cardinality(urls))
                 IN [o |-> rest.o, created |-> urls \cup rest.created]
            ELSE [o |-> [zipped EXCEPT !.pc = "generating"], created |-> {}]
    ELSE [o |-> o, created |-> {}]

\* App.tsx: isLoading, handed to the uploader as `disabled`.
isLoading(state) == state \in {"processing", "optimizing_ai", "optimizing"}

\* App.tsx render: the uploader is shown in 'upload', the form from 'summary'
\* to 'optimizing', the completion summary in 'completed' with its data.
FormShown(state) == state \in {"summary", "optimizing_ai", "optimizing"}

CompletionShown(state, data) == state = "completed" /\ data # <<>>

\* Mutant: the form is disabled only while optimizing.
FormIsLoadingOptimizingOnly(state) == state = "optimizing"

\* OptimizationForm: isLoading = isAiLoading || isOptimizing, the `disabled`
\* of every control and button of the form.
FormIsLoading(state) == state = "optimizing_ai" \/ state = "optimizing"

\* The form is on the page and its controls take input.
FormEnabled(state) == FormShown(state) /\ ~FormIsLoading(state)

\* Mutant: the catch sends the application back to 'upload', as the catch
\* of handleFileProcessing does.
AppAfterBackToUpload(o) ==
    IF o.pc \in {"rejected", "null"} THEN "upload" ELSE "optimizing"

\* Mutant: the catch leaves the state as it is.
AppAfterKeepsOptimizing(o) == "optimizing"

\* handleOptimize's catch: alert and back to 'summary'.
AppAfter(o) ==
    IF o.pc \in {"rejected", "null"} THEN "summary" ELSE "optimizing"

\* The temporary URLs of the loads still running in call o.
LoadingUrls(o) ==
    {o.items[i].tmpUrl : i \in {j \in 1..Len(o.items) : o.items[j].status = "loading"}}

\* App.tsx handleOptimize with the synchronous part of optimizeAndZip.  The
\* form offers Optimize in 'summary', so also after a failed call, whose
\* unsettled items run on by themselves.
HandleOptimize ==
    /\ FormEnabled(appState)
    /\ opt.clicks > 0
    /\ IF Len(imageFiles) = 0
       THEN /\ opt' = [IdleOpt EXCEPT !.pc = "null", !.settings = settings,
                                      !.clicks = opt.clicks - 1,
                                      !.orphans = opt.orphans \cup LoadingUrls(opt)]
            /\ appState' = "summary"
            /\ UNCHANGED <<liveUrls, nextUrl>>
       ELSE LET fresh == [IdleOpt EXCEPT
                            !.pc = "running", !.files = imageFiles, !.settings = settings,
                            !.items = [i \in 1..Len(imageFiles) |-> PendingItem],
                            !.clicks = opt.clicks - 1,
                            !.orphans = opt.orphans \cup LoadingUrls(opt)]
                started == StartBatch(fresh, 1, nextUrl)
                urls == BatchUrls(fresh, 1, nextUrl)
                after == Continue(started, FirstFailed(started), nextUrl + Cardinality(urls))
            IN /\ opt' = after.o
               /\ appState' = AppAfter(after.o)
               /\ liveUrls' = liveUrls \cup urls \cup after.created
               /\ nextUrl' = nextUrl + Cardinality(urls \cup after.created)
    /\ UNCHANGED <<imageFiles, completionData, settings, aiSuggestion, intake, calc, ai, naming, loads>>

\* The state change shared by every event that settles or advances item i.
\* The await in handleOptimize continues only when the call settles; an item
\* of a call already rejected changes nothing in the App.
ItemStep(i, item, revoked) ==
    LET o1 == [opt EXCEPT !.items[i] = item]
        after == Continue(o1, i, nextUrl)
    IN /\ opt' = after.o
       /\ liveUrls' = (liveUrls \ revoked) \cup after.created
       /\ nextUrl' = nextUrl + Cardinality(after.created)
       /\ appState' = IF opt.pc = "running" THEN AppAfter(after.o) ELSE appState
       /\ UNCHANGED <<imageFiles, completionData, settings, aiSuggestion, intake, calc, ai, naming, loads>>

\* image.onload in loadImageFromFile, then optimizeSingleImage up to
\* canvas.toBlob: the temporary URL is revoked, the target dimensions are
\* computed and the canvas is drawn.  getContext('2d') returning null throws
\* 'Canvas context not available', rethrown with stage 'optimization'.
ItemLoaded(i) ==
    /\ i \in 1..Len(opt.items)
    /\ opt.items[i].status = "loading"
    /\ \E ctxOk \in BOOLEAN, fpLow \in BOOLEAN :
          LET f == opt.files[i].file
              d == calculateOptimalDimensions(f.width, f.height, opt.settings.maxWidth, fpLow)
              item == IF ctxOk
                      THEN [opt.items[i] EXCEPT !.status = "encoding", !.tmpUrl = 0,
                                                !.width = d.width, !.height = d.height]
                      ELSE [opt.items[i] EXCEPT !.status = "failed", !.tmpUrl = 0,
                                                !.stage = "optimization"]
          IN ItemStep(i, item, {opt.items[i].tmpUrl})

\* image.onerror in loadImageFromFile: the temporary URL is revoked and the
\* rejection is rethrown by optimizeSingleImage with stage 'optimization'.
ItemLoadError(i) ==
    /\ i \in 1..Len(opt.items)
    /\ opt.items[i].status = "loading"
    /\ ItemStep(i, [opt.items[i] EXCEPT !.status = "failed", !.tmpUrl = 0,
                                        !.stage = "optimization"],
                {opt.items[i].tmpUrl})

\* The callback of canvas.toBlob.  A canvas without pixels gives no blob; the
\* encoder may also give none for a canvas with pixels.
ItemBlob(i) ==
    /\ i \in 1..Len(opt.items)
    /\ opt.items[i].status = "encoding"
    /\ \E blobOk \in BOOLEAN :
          /\ (opt.items[i].width <= 0 \/ opt.items[i].height <= 0) => ~blobOk
          /\ LET item == IF blobOk
                         THEN [opt.items[i] EXCEPT
                                 !.status = "ok",
                                 !.name = generateOptimizedFileName(opt.files[i].name,
                                                                    opt.settings.format)]
                         ELSE [opt.items[i] EXCEPT !.status = "failed",
                                                   !.stage = "compression"]
             IN ItemStep(i, item, {})

\* image.onload or image.onerror of a load that a failed call has left
\* running: the temporary URL is revoked; what the item does afterwards
\* reaches nobody.
OrphanLoadSettles(url) ==
    /\ url \in opt.orphans
    /\ opt' = [opt EXCEPT !.orphans = opt.orphans \ {url}]
    /\ liveUrls' = liveUrls \ {url}
    /\ UNCHANGED <<appState, imageFiles, completionData, settings, aiSuggestion, nextUrl,
                   intake, calc, ai, naming, loads>>

\* zip.generateAsync resolves; optimizeAndZip returns {blob, finalSize} and
\* handleOptimize records the completion data.
ZipGenerated ==
    /\ opt.pc = "generating"
    /\ \E sz \in 1..MaxZipSize :
          /\ opt' = [opt EXCEPT !.pc = "resolved",
                                !.blob = <<[members |-> opt.zip, size |-> sz]>>]
          /\ completionData' = <<[blob |-> [members |-> opt.zip, size |-> sz],
                                  initialSize |-> SumSizes(opt.files),
                                  finalSize |-> sz,
                                  fileCount |-> Len(opt.files)]>>
    /\ appState' = "completed"
    /\ UNCHANGED <<imageFiles, settings, aiSuggestion, liveUrls, nextUrl, intake, calc, ai, naming, loads>>

(***************************************************************************)
(* services/fileProcessingService.ts: processUploadedFiles, with           *)
(* extractImagesFromZip and fileToImageFile of utils/imageUtils.ts and     *)
(* handleFileProcessing of App.tsx.                                        *)
(*                                                                         *)
(* intake.pc: "scanning" (the loop over the uploaded files awaits          *)
(* extractImagesFromZip for the file at intake.cursor), "loading"          *)
(* (awaiting Promise.all over fileToImageFile), "resolved", "rejected".    *)
(* intake.items[i] follows processedFiles[i]: "loading", "ok", "failed".   *)
(***************************************************************************)
isZip(file) == file.type = "application/zip"

\* extractImagesFromZip on a readable archive: the members in the archive's
\* enumeration order that are not directories and whose blob has a supported
\* type, each as a File named after the member.
RECURSIVE ZipImages(_)
ZipImages(members) ==
    IF members = <<>> THEN <<>>
    ELSE LET m == Head(members)
         IN IF ~m.dir /\ m.type \in SUPPORTED_IMAGE_TYPES
            THEN <<[name |-> m.name, type |-> m.type, size |-> m.size,
                    width |-> m.width, height |-> m.height]>> \o ZipImages(Tail(members))
            ELSE ZipImages(Tail(members))

\* Mutant: the loop ends at an archive that could not be read.
RECURSIVE ScanFromStopsAtUnreadable(_, _, _)
ScanFromStopsAtUnreadable(fileList, cursor, processed) ==
    IF cursor > 1 /\ cursor <= Len(fileList) + 1 /\ fileList[cursor - 1].type = "application/zip"
          /\ ~fileList[cursor - 1].readable
    THEN [cursor |-> Len(fileList) + 1, processedFiles |-> processed]
    ELSE IF cursor > Len(fileList) \/ fileList[cursor].type = "application/zip"
    THEN [cursor |-> cursor, processedFiles |-> processed]
    ELSE IF fileList[cursor].type \in SUPPORTED_IMAGE_TYPES
    THEN ScanFromStopsAtUnreadable(fileList, cursor + 1, Append(processed, fileList[cursor]))
    ELSE ScanFromStopsAtUnreadable(fileList, cursor + 1, processed)

\* The loop of processUploadedFiles from the file at `cursor` on, up to the
\* next archive (whose extraction is awaited) or the end of the list.
RECURSIVE ScanFrom(_, _, _)
ScanFrom(fileList, cursor, processed) ==
    IF cursor > Len(fileList) \/ isZip(fileList[cursor])
    THEN [cursor |-> cursor, processedFiles |-> processed]
    ELSE IF isValidImageType(fileList[cursor])
    THEN ScanFrom(fileList, cursor + 1, Append(processed, fileList[cursor]))
    ELSE ScanFrom(fileList, cursor + 1, processed)

\* Mutant: the empty check is dropped.
NoCompatibleImagesNeverChecked(processed) == FALSE

\* processedFiles.length === 0
NoCompatibleImages(processed) == Len(processed) = 0

IntakeItem == [status |-> "loading", tmpUrl |-> 0, objectUrl |-> 0]

IntakeTmpUrl(processed, i, next) ==
    next + Cardinality({j \in 1..(i - 1) : LoadAccepts(processed[j])})

\* processedFiles.map(async (file, index) => fileToImageFile(file)): every
\* file runs up to the await in loadImageFromFile.
StartLoads(processed, next) ==
    [i \in 1..Len(processed) |->
        IF LoadAccepts(processed[i])
        THEN [IntakeItem EXCEPT !.tmpUrl = IntakeTmpUrl(processed, i, next)]
        ELSE [IntakeItem EXCEPT !.status = "failed"]]

StartLoadUrls(processed, next) ==
    {IntakeTmpUrl(processed, i, next) : i \in {j \in 1..Len(processed) : LoadAccepts(processed[j])}}

\* Mutant: a failed image is skipped; the join fails only if all have failed.
IntakeJoinRejectsWhenAllFailed(in) ==
    in.pc = "loading" /\ \A i \in 1..Len(in.items) : in.items[i].status = "failed"

\* Promise.all(imageFilePromises)
IntakeJoinRejects(in) ==
    in.pc = "loading" /\ \E i \in 1..Len(in.items) : in.items[i].status = "failed"

IntakeJoinResolves(in) ==
    in.pc = "loading" /\ \A i \in 1..Len(in.items) : in.items[i].status = "ok"

\* createProcessingError(`Failed to process image ${index + 1}/${n}: ${name}`,
\* file.name, 'loading')
IntakeError(in, i) ==
    [kind |-> "image", fileName |-> in.processedFiles[i].name, index |-> i,
     of |-> Len(in.processedFiles), stage |-> "loading"]

NoCompatibleError == [kind |-> "noCompatible", fileName |-> <<>>, index |-> 0, of |-> 0,
                      stage |-> ""]

FirstFailedLoad(items) ==
    LET bad == {i \in 1..Len(items) : items[i].status = "failed"}
    IN IF bad = {} THEN 0 ELSE CHOOSE i \in bad : \A j \in bad : i <= j

\* Mutant: the records come out in the reverse of the order of processedFiles.
IntakeRecordsReversed(in) ==
    [i \in 1..Len(in.processedFiles) |->
        ImageFileOf(in.processedFiles[Len(in.processedFiles) + 1 - i],
                    in.items[Len(in.processedFiles) + 1 - i].objectUrl)]

\* The records Promise.all resolves with, in the order of processedFiles.
IntakeRecords(in) ==
    [i \in 1..Len(in.processedFiles) |->
        ImageFileOf(in.processedFiles[i], in.items[i].objectUrl)]

\* processUploadedFiles once its loop has come to `scan`: it waits for the
\* next archive, or throws for an empty result, or starts fileToImageFile on
\* every file.  `created` are the object URLs created on the way and `used`
\* the number of URLs taken from the platform (the catch block creates and
\* at once revokes one URL per processed file).
AfterScan(in, scan, next) ==
    LET in1 == [in EXCEPT !.cursor = scan.cursor, !.processedFiles = scan.processedFiles]
    IN IF scan.cursor <= Len(in.fileList)
       THEN [in |-> [in1 EXCEPT !.pc = "scanning"], created |-> {}, used |-> 0]
       ELSE IF NoCompatibleImages(scan.processedFiles)
       THEN [in |-> [in1 EXCEPT !.pc = "rejected", !.error = <<NoCompatibleError>>],
             created |-> {}, used |-> 0]
       ELSE LET items == StartLoads(scan.processedFiles, next)
                urls == StartLoadUrls(scan.processedFiles, next)
                in2 == [in1 EXCEPT !.pc = "loading", !.items = items]
            IN IF IntakeJoinRejects(in2)
               THEN [in |-> [in2 EXCEPT !.pc = "rejected",
                                        !.error = <<IntakeError(in2, FirstFailedLoad(items))>>],
                     created |-> urls,
                     used |-> Cardinality(urls) + Len(scan.processedFiles)]
               ELSE [in |-> in2, created |-> urls, used |-> Cardinality(urls)]

\* handleFileProcessing after processUploadedFiles has moved to `in`.
IntakeOutcome(in, revoked, created, used) ==
    /\ intake' = in
    /\ liveUrls' = (liveUrls \ revoked) \cup created
    /\ nextUrl' = nextUrl + used
    /\ appState' = CASE in.pc = "resolved" -> "summary"
                     [] in.pc = "rejected" /\ intake.pc # "rejected" -> "upload"
                     [] OTHER -> appState
    /\ imageFiles' = IF in.pc = "resolved" THEN IntakeRecords(in) ELSE imageFiles
    /\ UNCHANGED <<completionData, settings, aiSuggestion, opt, calc, ai, naming, loads>>

\* The temporary URLs of the loads still running in call `in`.
IntakeLoadingUrls(in) ==
    {in.items[i].tmpUrl : i \in {j \in 1..Len(in.items) : in.items[j].status = "loading"}}

\* App.tsx handleFileProcessing: 'processing', then processUploadedFiles up
\* to its first await.  The uploader is back in 'upload' after a failed call,
\* whose unsettled loads run on by themselves.
HandleFileProcessing(fileList) ==
    /\ appState = "upload"
    /\ intake.uploads > 0
    /\ ~isLoading(appState)
    /\ LET in0 == [IdleIntake EXCEPT !.fileList = fileList,
                                     !.uploads = intake.uploads - 1,
                                     !.orphans = intake.orphans \cup IntakeLoadingUrls(intake)]
           r == AfterScan(in0, ScanFrom(fileList, 1, <<>>), nextUrl)
       IN /\ intake' = r.in
          /\ liveUrls' = liveUrls \cup r.created
          /\ nextUrl' = nextUrl + r.used
          /\ appState' = IF r.in.pc = "rejected" THEN "upload" ELSE "processing"
    /\ UNCHANGED <<imageFiles, completionData, settings, aiSuggestion, opt, calc, ai, naming, loads>>

\* extractImagesFromZip settles for the archive at the cursor: its images are
\* appended, or it throws and the loop's catch goes on with the next file.
ZipExtracted ==
    /\ intake.pc = "scanning"
    /\ LET zipFile == intake.fileList[intake.cursor]
           extracted == IF zipFile.readable THEN ZipImages(zipFile.members) ELSE <<>>
           r == AfterScan(intake,
                          ScanFrom(intake.fileList, intake.cursor + 1,
                                   intake.processedFiles \o extracted),
                          nextUrl)
       IN IntakeOutcome(r.in, {}, r.created, r.used)

\* What follows the settling of processed file i: the join and, through the
\* await in handleFileProcessing, the App.
IntakeSettle(i, item, revoked, created) ==
    LET in1 == [intake EXCEPT !.items[i] = item]
        n == Len(intake.processedFiles)
    IN IF IntakeJoinRejects(in1)
       THEN IntakeOutcome([in1 EXCEPT !.pc = "rejected", !.error = <<IntakeError(in1, i)>>],
                          revoked, created, Cardinality(created) + n)
       ELSE IF IntakeJoinResolves(in1)
       THEN IntakeOutcome([in1 EXCEPT !.pc = "resolved"], revoked, created,
                          Cardinality(created))
       ELSE IntakeOutcome(in1, revoked, created, Cardinality(created))

\* image.onload in loadImageFromFile for processed file i: the temporary URL
\* is revoked, then fileToImageFile creates the record's own object URL.
IntakeImageLoaded(i) ==
    /\ i \in 1..Len(intake.items)
    /\ intake.items[i].status = "loading"
    /\ IntakeSettle(i, [intake.items[i] EXCEPT !.status = "ok", !.tmpUrl = 0,
                                               !.objectUrl = nextUrl],
                    {intake.items[i].tmpUrl}, {nextUrl})

\* image.onerror in loadImageFromFile for processed file i.
IntakeImageError(i) ==
    /\ i \in 1..Len(intake.items)
    /\ intake.items[i].status = "loading"
    /\ IntakeSettle(i, [intake.items[i] EXCEPT !.status = "failed", !.tmpUrl = 0],
                    {intake.items[i].tmpUrl}, {})

\* image.onload for a load of an earlier, failed call of
\* processUploadedFiles: the temporary URL is revoked and fileToImageFile
\* creates an object URL for a record nobody receives.
IntakeOrphanLoaded(url) ==
    /\ url \in intake.orphans
    /\ intake' = [intake EXCEPT !.orphans = intake.orphans \ {url}]
    /\ liveUrls' = (liveUrls \ {url}) \cup {nextUrl}
    /\ nextUrl' = nextUrl + 1
    /\ UNCHANGED <<appState, imageFiles, completionData, settings, aiSuggestion,
                   opt, calc, ai, naming, loads>>

\* image.onerror for a load of an earlier, failed call.
IntakeOrphanError(url) ==
    /\ url \in intake.orphans
    /\ intake' = [intake EXCEPT !.orphans = intake.orphans \ {url}]
    /\ liveUrls' = liveUrls \ {url}
    /\ UNCHANGED <<appState, imageFiles, completionData, settings, aiSuggestion,
                   nextUrl, opt, calc, ai, naming, loads>>

\* Mutant: revoking flips the URL's entry in the handle table, so that a
\* second revocation brings the URL back.
cleanupImageFilesToggles(live, images) ==
    LET urls == {images[i].objectUrl : i \in {j \in 1..Len(images) : images[j].objectUrl # 0}}
    IN (live \ urls) \cup (urls \ live)

\* URL.revokeObjectURL on each record's URL; revoking a URL that is not live
\* does nothing.
cleanupImageFiles(live, images) ==
    live \ {images[i].objectUrl : i \in {j \in 1..Len(images) : images[j].objectUrl # 0}}

\* App.tsx handleReset, followed by the cleanup of the effect on [imageFiles],
\* which React runs with the previous list when the list changes.
HandleReset ==
    /\ FormEnabled(appState) \/ CompletionShown(appState, completionData)
    /\ liveUrls' = cleanupImageFiles(cleanupImageFiles(liveUrls, imageFiles), imageFiles)
    /\ imageFiles' = <<>>
    /\ aiSuggestion' = <<>>
    /\ completionData' = <<>>
    /\ settings' = DefaultSettings
    /\ appState' = "upload"
    /\ UNCHANGED <<nextUrl, opt, intake, calc, ai, naming, loads>>

(***************************************************************************)
(* services/geminiService.ts: getOptimizationSuggestion with               *)
(* validateAiResponse, and handleGetAiSuggestion of App.tsx.               *)
(*                                                                         *)
(* ai.pc: "delay" (no API key: awaiting the 1 s timer), "thumbnail"        *)
(* (createThumbnail awaits the image), "thumbBlob" (createThumbnail awaits *)
(* canvas.toBlob), "reading" (fileToGenerativePart awaits the FileReader), *)
(* "generating" (awaiting model.generateContent), "settled" (the handler   *)
(* has finished).  Quality is kept in hundredths and a reply's maxWidth in *)
(* halves of a pixel (maxWidth2), so that Math.round has something to do.  *)
(***************************************************************************)
DEFAULT_SUGGESTION == [reasoning |-> "default", format |-> "webp", quality |-> 85,
                       maxWidth |-> 1920]

\* The value null.
Null == [null |-> TRUE]

toLowerCase(str) ==
    CASE str = "PNG" -> "png"
      [] str = "WebP" -> "webp"
      [] str = "GIF" -> "gif"
      [] OTHER -> str

trim(str) ==
    CASE str = " photo " -> "photo"
      [] str = " " -> ""
      [] OTHER -> str

\* Math.round of a number given in halves.
MathRoundHalves(x2) == (x2 + 1) \div 2

\* extractJsonFromResponse: the parsed object, or null when the text holds no
\* JSON.
extractJsonFromResponse(reply) == IF reply.kind = "json" THEN reply ELSE Null

\* Mutant: the format is lower-cased but not compared with the supported
\* formats.
validateAiResponseAnyFormat(response) ==
    IF response = Null THEN Null
    ELSE IF response.reasoning = "" THEN Null
    ELSE IF response.format = "" THEN Null
    ELSE IF response.qualityType # "number" \/ response.quality < 10 \/ response.quality > 100
    THEN Null
    ELSE IF response.maxWidthType # "number" \/ response.maxWidth2 < 200
            \/ response.maxWidth2 > 8000
    THEN Null
    ELSE [reasoning |-> trim(response.reasoning),
          format |-> toLowerCase(response.format),
          quality |-> Max(10, Min(100, response.quality)),
          maxWidth |-> Max(100, Min(4000, MathRoundHalves(response.maxWidth2)))]

\* validateAiResponse: null unless reasoning is a non-empty string, format
\* (lower-cased) a supported format, quality a number in [0.1, 1] and
\* maxWidth a number in [100, 4000]; the result is normalized.
validateAiResponse(response) ==
    IF response = Null THEN Null
    ELSE IF response.reasoning = "" THEN Null
    ELSE IF response.format = "" \/ toLowerCase(response.format) \notin {"jpeg", "png", "webp"}
    THEN Null
    ELSE IF response.qualityType # "number" \/ response.quality < 10 \/ response.quality > 100
    THEN Null
    ELSE IF response.maxWidthType # "number" \/ response.maxWidth2 < 200
            \/ response.maxWidth2 > 8000
    THEN Null
    ELSE [reasoning |-> trim(response.reasoning),
          format |-> toLowerCase(response.format),
          quality |-> Max(10, Min(100, response.quality)),
          maxWidth |-> Max(100, Min(4000, MathRoundHalves(response.maxWidth2)))]

\* Mutant: a reply that does not validate gives null (no suggestion).
OrDefaultGivesNull(validatedResponse) == validatedResponse

\* validatedResponse || DEFAULT_SUGGESTION
OrDefault(validatedResponse) ==
    IF validatedResponse = Null THEN DEFAULT_SUGGESTION ELSE validatedResponse

\* The catch of getOptimizationSuggestion: the default suggestion is
\* returned instead of throwing.
ServiceFailure == [kind |-> "return", value |-> DEFAULT_SUGGESTION]

\* handleGetAiSuggestion after the await: a suggestion is written into the
\* settings and recorded; null leaves both; a throw is caught with an alert;
\* finally the state is 'summary'.
SuggestionSettles(result, cause, response, revoked) ==
    LET suggestion == result.value
        applied == result.kind = "return" /\ suggestion # Null
    IN /\ settings' = IF applied
                      THEN [settings EXCEPT !.format = suggestion.format,
                                            !.quality = suggestion.quality,
                                            !.maxWidth = suggestion.maxWidth]
                      ELSE settings
       /\ aiSuggestion' = IF applied THEN <<suggestion>> ELSE aiSuggestion
       /\ appState' = "summary"
       /\ ai' = [ai EXCEPT !.pc = "settled", !.tmpUrl = 0, !.cause = cause,
                           !.response = response]
       /\ liveUrls' = liveUrls \ revoked
       /\ UNCHANGED <<imageFiles, completionData, nextUrl, opt, intake, calc, naming, loads>>

\* App.tsx handleGetAiSuggestion with getOptimizationSuggestion up to its
\* first await: the timer without an API key, createThumbnail with one.
HandleGetAiSuggestion ==
    /\ FormEnabled(appState)
    /\ Len(imageFiles) > 0
    /\ ai.requests < MaxRequests
    /\ appState' = "optimizing_ai"
    /\ aiSuggestion' = <<>>
    /\ IF ai.apiKey
       THEN /\ ai' = [ai EXCEPT !.pc = "thumbnail", !.tmpUrl = nextUrl,
                                !.requests = ai.requests + 1, !.cause = "",
                                !.response = <<>>, !.settingsBefore = settings]
            /\ liveUrls' = liveUrls \cup {nextUrl}
            /\ nextUrl' = nextUrl + 1
       ELSE /\ ai' = [ai EXCEPT !.pc = "delay", !.tmpUrl = 0,
                                !.requests = ai.requests + 1, !.cause = "",
                                !.response = <<>>, !.settingsBefore = settings]
            /\ UNCHANGED <<liveUrls, nextUrl>>
    /\ UNCHANGED <<imageFiles, completionData, settings, opt, intake, calc, naming, loads>>

\* Without an API key the timer fires and the default suggestion is returned.
DelayElapsed ==
    /\ ai.pc = "delay"
    /\ SuggestionSettles([kind |-> "return", value |-> DEFAULT_SUGGESTION], "noKey", <<>>, {})

\* img.onload in createThumbnail: without a 2d context the URL is revoked and
\* the promise rejected; otherwise the canvas is drawn and toBlob awaited.
ThumbnailLoaded ==
    /\ ai.pc = "thumbnail"
    /\ \E ctxOk \in BOOLEAN :
          IF ctxOk
          THEN /\ ai' = [ai EXCEPT !.pc = "thumbBlob"]
               /\ UNCHANGED <<appState, imageFiles, completionData, settings, aiSuggestion,
                              liveUrls, nextUrl, opt, intake, calc, naming, loads>>
          ELSE SuggestionSettles(ServiceFailure, "thumbnail", <<>>, {ai.tmpUrl})

\* img.onerror in createThumbnail.
ThumbnailError ==
    /\ ai.pc = "thumbnail"
    /\ SuggestionSettles(ServiceFailure, "thumbnail", <<>>, {ai.tmpUrl})

\* The callback of canvas.toBlob in createThumbnail: the URL is revoked; with
\* a blob fileToGenerativePart starts reading the thumbnail.
ThumbnailBlob ==
    /\ ai.pc = "thumbBlob"
    /\ \E blobOk \in BOOLEAN :
          IF blobOk
          THEN /\ ai' = [ai EXCEPT !.pc = "reading", !.tmpUrl = 0]
               /\ liveUrls' = liveUrls \ {ai.tmpUrl}
               /\ UNCHANGED <<appState, imageFiles, completionData, settings, aiSuggestion,
                              nextUrl, opt, intake, calc, naming, loads>>
          ELSE SuggestionSettles(ServiceFailure, "thumbnail", <<>>, {ai.tmpUrl})

\* reader.onloadend / reader.onerror in fileToGenerativePart.
PartRead ==
    /\ ai.pc = "reading"
    /\ \E readOk \in BOOLEAN :
          IF readOk
          THEN /\ ai' = [ai EXCEPT !.pc = "generating"]
               /\ UNCHANGED <<appState, imageFiles, completionData, settings, aiSuggestion,
                              liveUrls, nextUrl, opt, intake, calc, naming, loads>>
          ELSE SuggestionSettles(ServiceFailure, "read", <<>>, {})

\* model.generateContent settles: it fails, or its text is parsed by
\* extractJsonFromResponse (Null when no JSON is found) and validated.
ResponseArrives(reply) ==
    /\ ai.pc = "generating"
    /\ IF reply.kind = "fails"
       THEN SuggestionSettles(ServiceFailure, "service", <<>>, {})
       ELSE SuggestionSettles([kind |-> "return",
                               value |-> OrDefault(validateAiResponse(
                                                     extractJsonFromResponse(reply)))],
                              "reply", <<reply>>, {})

\* components/OptimizationForm.tsx handleSettingChange, on the enabled form.
handleSettingChange(key, value) ==
    /\ FormEnabled(appState)
    /\ settings' = [settings EXCEPT ![key] = value]
    /\ UNCHANGED <<appState, imageFiles, completionData, aiSuggestion, liveUrls, nextUrl,
                   opt, intake, calc, ai, naming, loads>>

(***************************************************************************)
(* Specification SpecDims: calculateOptimalDimensions on bounded inputs.   *)
(***************************************************************************)
InitDims ==
    /\ appState = "upload"
    /\ imageFiles = <<>>
    /\ completionData = <<>>
    /\ settings = DefaultSettings
    /\ aiSuggestion = <<>>
    /\ liveUrls = {}
    /\ nextUrl = 1
    /\ opt = IdleOpt
    /\ intake = IdleIntake
    /\ \E w \in 1..MaxDim, h \in 1..MaxDim, m \in 1..(MaxDim + 1), f \in BOOLEAN :
          calc = [IdleCalc EXCEPT !.w = w, !.h = h, !.maxWidth = m, !.fpLow = f]
    /\ ai = IdleAi
    /\ naming = IdleNaming
    /\ loads = <<>>

CalcDims ==
    /\ ~calc.done
    /\ LET d == calculateOptimalDimensions(calc.w, calc.h, calc.maxWidth, calc.fpLow)
       IN calc' = [calc EXCEPT !.done = TRUE, !.width = d.width, !.height = d.height]
    /\ UNCHANGED <<appState, imageFiles, completionData, settings, aiSuggestion,
                   liveUrls, nextUrl, opt, intake, ai, naming, loads>>

NextDims == CalcDims

SpecDims == InitDims /\ [][NextDims]_vars

\* C7: for positive original width and height and maxWidth >= original width,
\* calculateOptimalDimensions returns exactly the original width and height.
C7_NoUpscaling ==
    (calc.done /\ calc.maxWidth >= calc.w)
        => (calc.width = calc.w /\ calc.height = calc.h)

C7_Witness == calc.done /\ calc.maxWidth > calc.w /\ calc.h > 1

\* C8: for positive maxWidth < original width the result's width is exactly
\* maxWidth and its height is within 1 pixel of originalHeight * maxWidth /
\* originalWidth; it is a nearest integer of that value.
C8_ScaledWithinOnePixel ==
    (calc.done /\ calc.maxWidth < calc.w)
        => LET exactNum == calc.h * calc.maxWidth
               diff == calc.height * calc.w - exactNum
               abs == IF diff < 0 THEN -diff ELSE diff
           IN /\ calc.width = calc.maxWidth
              /\ abs <= calc.w
              /\ 2 * abs <= calc.w

C8_Witness ==
    /\ calc.done /\ calc.maxWidth < calc.w
    /\ (calc.h * calc.maxWidth) % calc.w # 0
    /\ calc.height # calc.h

\* C30: for positive original width, original height and maxWidth, the width
\* and the height calculateOptimalDimensions returns are both at least 1.
C30_DimensionsAtLeastOne ==
    calc.done => (calc.width >= 1 /\ calc.height >= 1)

(***************************************************************************)
(* Specification SpecOpt: one call of handleOptimize / optimizeAndZip on a *)
(* batch of records that intake has delivered (state 'summary').           *)
(***************************************************************************)
Alphabet == <<"a", "b", "c", "d", "e", "f", "g", "h", "k", "m">>

Letter(i) == Alphabet[((i - 1) % Len(Alphabet)) + 1]

\* The File behind record i of a batch of the given kind.
InputFile(kind, i) ==
    CASE kind = "photos" ->
            [name |-> <<Letter(i), ".", "j", "p", "g">>, type |-> "image/jpeg",
             size |-> 1000 + i, width |-> 3000, height |-> 2000]
      [] kind = "sameStem" ->
            IF i = 2
            THEN [name |-> <<Letter(1), ".", "p", "n", "g">>, type |-> "image/png",
                  size |-> 1000 + i, width |-> 3000, height |-> 2000]
            ELSE [name |-> <<Letter(i), ".", "j", "p", "g">>, type |-> "image/jpeg",
                  size |-> 1000 + i, width |-> 3000, height |-> 2000]
      [] kind = "noExt" ->
            [name |-> <<Letter(i)>>, type |-> "image/webp",
             size |-> 1000 + i, width |-> 800, height |-> 600]
      [] kind = "tiny" ->
            [name |-> <<Letter(i), ".", "g", "i", "f">>, type |-> "image/gif",
             size |-> 1000 + i, width |-> 4, height |-> 1]

\* The batches and settings the optimizer is run on: the spec's scenario
\* (3000x2000 photos, maxWidth 1920, webp), settings outside the contract
\* (quality 1.4; maxWidth 0, which the form's maxWidth input yields when
\* emptied), names sharing a stem, names without extension, and 4x1 images
\* scaled to width 2.
OptInputs ==
    {[kind |-> "photos", settings |-> [quality |-> 85, maxWidth |-> 1920, format |-> "webp"]],
     [kind |-> "photos", settings |-> [quality |-> 140, maxWidth |-> 1920, format |-> "webp"]],
     [kind |-> "photos", settings |-> [quality |-> 85, maxWidth |-> 0, format |-> "jpeg"]],
     [kind |-> "sameStem", settings |-> [quality |-> 85, maxWidth |-> 1920, format |-> "webp"]],
     [kind |-> "noExt", settings |-> [quality |-> 100, maxWidth |-> 1920, format |-> "png"]],
     [kind |-> "tiny", settings |-> [quality |-> 100, maxWidth |-> 2, format |-> "png"]]}

InitOpt ==
    /\ appState = "summary"
    /\ \E n \in 1..MaxFiles, in \in OptInputs :
          /\ imageFiles = [i \in 1..n |-> ImageFileOf(InputFile(in.kind, i), i)]
          /\ settings = in.settings
    /\ completionData = <<>>
    /\ aiSuggestion = <<>>
    /\ liveUrls = {imageFiles[i].objectUrl : i \in 1..Len(imageFiles)}
    /\ nextUrl = Len(imageFiles) + 1
    /\ opt = IdleOpt
    /\ intake = IdleIntake
    /\ calc = IdleCalc
    /\ ai = IdleAi
    /\ naming = IdleNaming
    /\ loads = <<>>

NextOpt ==
    \/ HandleOptimize
    \/ \E i \in 1..MaxFiles : ItemLoaded(i)
    \/ \E i \in 1..MaxFiles : ItemLoadError(i)
    \/ \E i \in 1..MaxFiles : ItemBlob(i)
    \/ ZipGenerated

SpecOpt == InitOpt /\ [][NextOpt]_vars

(***************************************************************************)
(* Properties of optimizeAndZip, checked under SpecOpt.                    *)
(***************************************************************************)
NumRecords == Len(opt.files)

Status(i) == opt.items[i].status

InFlight == {i \in 1..NumRecords : Status(i) \in {"loading", "encoding"}}

Failed == {i \in 1..NumRecords : Status(i) = "failed"}

Succeeded == {i \in 1..NumRecords : Status(i) = "ok"}

Started == {i \in 1..NumRecords : Status(i) # "pending"}

\* Settings within the contract: quality in (0,1] (kept in hundredths),
\* maxWidth a positive integer.
ValidSettings(s) == s.quality > 0 /\ s.quality <= 100 /\ s.maxWidth > 0

\* C1: when every item of a batch of N records decodes and encodes, the
\* archive optimizeAndZip returns has exactly N members and the reported
\* fileCount is N.
C1_ArchiveHasNMembers ==
    (opt.pc = "resolved" /\ Succeeded = 1..NumRecords)
        => /\ Len(opt.blob[1].members) = NumRecords
           /\ completionData[1].fileCount = NumRecords

\* C2 as claimed: with exactly one failing item among N >= 2, the call still
\* completes with an archive of the N-1 successful outputs.
C2_OneFailureStillCompletes ==
    (NumRecords >= 2 /\ InFlight = {} /\ Cardinality(Failed) = 1
        /\ Cardinality(Succeeded) = NumRecords - 1)
        => (opt.pc = "resolved" /\ Len(opt.blob[1].members) = NumRecords - 1)

\* C2 as amended: when an item fails, optimizeAndZip fails as a whole: it
\* rejects with a failed item's error (its file name and stage), no archive
\* is returned and no completion data is recorded; an archive is generated
\* only when every item has succeeded.
C2_AnyFailureFailsWhole ==
    /\ Failed # {}
         => /\ opt.pc = "rejected"
            /\ Len(opt.error) = 1
            /\ opt.error[1].item \in Failed
            /\ opt.error[1].fileName = opt.files[opt.error[1].item].name
            /\ opt.error[1].stage = opt.items[opt.error[1].item].stage
            /\ opt.blob = <<>>
            /\ completionData = <<>>
            /\ appState = "summary"
    /\ opt.pc \in {"generating", "resolved"} => Succeeded = 1..NumRecords

C2_Witness ==
    /\ NumRecords >= 2 /\ opt.pc = "rejected" /\ InFlight = {}
    /\ Cardinality(Failed) = 1 /\ Cardinality(Succeeded) = NumRecords - 1

\* C3 as claimed: the chunk's join completes only after every item of the
\* chunk has settled, not on the first failure.
C3_JoinWaitsForAllSettled ==
    opt.pc = "rejected"
        => \A i \in BatchIndices(opt.chunk, NumRecords) : Status(i) \in {"ok", "failed"}

\* C3 as amended: a failed item does not abort its siblings, which can still
\* run to their end; the join fails at the first failed item without waiting
\* for the others, and it succeeds (next chunk, archive) only after every item
\* of the chunk has succeeded.
C3_SiblingsRunJoinFailsFirst ==
    /\ \A i \in InFlight :
          \/ Status(i) = "loading" /\ ENABLED ItemLoaded(i) /\ ENABLED ItemLoadError(i)
          \/ Status(i) = "encoding" /\ ENABLED ItemBlob(i)
    /\ opt.pc = "running" => Failed = {}
    /\ opt.pc = "rejected" => Failed \cap BatchIndices(opt.chunk, NumRecords) # {}
    /\ \A k \in 1..NumBatches(NumRecords) :
          (opt.chunk > k \/ opt.pc \in {"generating", "resolved"})
              => BatchIndices(k, NumRecords) \subseteq Succeeded

C3_Witness ==
    /\ opt.pc = "rejected"
    /\ \E i \in Succeeded, j \in InFlight : i # opt.error[1].item /\ j # i

\* C4: the records are split in input order into consecutive chunks of 5 (the
\* last may be smaller); the items of a chunk are started only after every
\* item of the previous chunk has completed, so never more than 5 items are
\* in flight; 7 records run as a chunk of 5 followed by a chunk of 2.
C4_ChunksOfFiveInOrder ==
    opt.pc \notin {"idle", "null"}
        => /\ Cardinality(InFlight) <= 5
           /\ opt.chunk \in 1..((NumRecords + 4) \div 5)
           /\ Started = 1..(IF 5 * opt.chunk <= NumRecords THEN 5 * opt.chunk ELSE NumRecords)
           /\ InFlight # {} /\ opt.pc = "running"
                => InFlight \subseteq (5 * (opt.chunk - 1) + 1)..(5 * opt.chunk)
           /\ \A i \in Started : \A j \in 1..(5 * ((i - 1) \div 5)) : Status(j) = "ok"
           /\ NumRecords = 7 => Started \in {1..5, 1..7}

C4_Witness ==
    /\ NumRecords = 7 /\ opt.chunk = 2
    /\ Status(6) = "loading" /\ Status(7) = "encoding"
    /\ \A i \in 1..5 : Status(i) = "ok"

\* C6: settings outside the contract are rejected by the optimizer before any
\* item is loaded: no item leaves "pending" and nothing enters the archive.
C6_InvalidSettingsRejectedFirst ==
    (opt.pc # "idle" /\ ~ValidSettings(opt.settings))
        => /\ opt.pc = "rejected"
           /\ Started = {}
           /\ opt.zip = <<>>

\* C17: every failure of optimizeSingleImage, from loading, from the canvas
\* or from encoding, carries the name of the record it comes from and a stage
\* tag ('optimization' or 'compression'); so does the error optimizeAndZip
\* rejects with.
C17_FailureCarriesNameAndStage ==
    /\ \A i \in Failed :
          /\ ItemError(opt, i).fileName = imageFiles[i].name
          /\ ItemError(opt, i).fileName # <<>>
          /\ ItemError(opt, i).stage \in {"optimization", "compression"}
    /\ \A i \in (1..NumRecords) \ Failed : opt.items[i].stage = ""
    /\ opt.pc = "rejected"
          => /\ Len(opt.error) = 1
             /\ opt.error[1].item \in Failed
             /\ opt.error[1].fileName = imageFiles[opt.error[1].item].name
             /\ opt.error[1].fileName # <<>>
             /\ opt.error[1].stage \in {"optimization", "compression"}

C17_Witness ==
    /\ opt.pc = "rejected" /\ opt.error[1].stage = "compression"
    /\ \E i \in Failed, j \in Failed :
          opt.items[i].stage = "compression" /\ opt.items[j].stage = "optimization"

\* C19: no two members put into one archive share a name: the member names
\* of two distinct records of a batch are different.
C19_MemberNamesDistinct ==
    \A i \in Succeeded, j \in Succeeded :
        i # j => opt.items[i].name # opt.items[j].name

\* The chunk of record i.
ChunkOf(i) == ((i - 1) \div BATCH_SIZE) + 1

\* C22: optimizeAndZip is all-or-nothing across chunks: in every state in
\* which an item of chunk k has failed, no item of a later chunk has been
\* started and no archive is being or has been generated; the archive is
\* generated only when every item of every chunk has succeeded.
C22_AllOrNothingAcrossChunks ==
    /\ \A i \in Failed :
          /\ \A j \in 1..NumRecords : ChunkOf(j) > ChunkOf(i) => Status(j) = "pending"
          /\ opt.pc = "rejected"
          /\ opt.blob = <<>> /\ completionData = <<>>
    /\ opt.pc \in {"generating", "resolved"}
          => /\ Succeeded = 1..NumRecords
             /\ \A i \in 1..NumRecords : \E p \in 1..Len(opt.zip) :
                   opt.zip[p].name = opt.items[i].name

C22_Witness ==
    /\ NumRecords = 7 /\ opt.pc = "rejected"
    /\ Status(3) = "failed" /\ \A i \in {1, 2, 4, 5} : Status(i) = "ok"
    /\ Status(6) = "pending" /\ Status(7) = "pending"

\* The member names the records 1..hi give, each name once, in the order
\* of its first record.
RECURSIVE MembersUpTo(_)
MembersUpTo(hi) ==
    IF hi = 0 THEN <<>>
    ELSE LET before == MembersUpTo(hi - 1)
             name == opt.items[hi].name
         IN IF \E p \in 1..Len(before) : before[p] = name THEN before
            ELSE Append(before, name)

\* C23: the outputs enter the archive in the input order of their records,
\* in whatever order the items of a chunk finish: the archive holds the
\* outputs of all finished chunks, ordered as their records, and the finished
\* archive is the same in every interleaving.
C23_MembersInInputOrder ==
    /\ \A p \in 1..Len(opt.zip), q \in 1..Len(opt.zip) :
          p < q => opt.zip[p].item < opt.zip[q].item
    /\ opt.pc = "running"
          => [p \in 1..Len(opt.zip) |-> opt.zip[p].name] = MembersUpTo(BATCH_SIZE * (opt.chunk - 1))
    /\ opt.pc \in {"generating", "resolved"}
          => [p \in 1..Len(opt.zip) |-> opt.zip[p].name] = MembersUpTo(NumRecords)

C23_Witness ==
    /\ NumRecords = 7 /\ opt.pc = "running" /\ opt.chunk = 2
    /\ Status(7) = "ok" /\ Status(6) = "loading"
    /\ Len(opt.zip) = 5 /\ opt.zip[5].item = 5

(***************************************************************************)
(* Specification SpecIntake: one upload through handleFileProcessing /     *)
(* processUploadedFiles, and the reset of the batch it delivers.           *)
(***************************************************************************)
UploadKinds == {"jpeg", "text", "huge", "zip", "badzip", "textzip"}

ZipMember(i, j, type, dir) ==
    [name |-> <<Letter(i), "/", Letter(j)>>, type |-> type, dir |-> dir,
     size |-> 500 + j, width |-> 640, height |-> 480]

\* The i-th uploaded file of the given kind.
UploadFile(kind, i) ==
    CASE kind = "jpeg" ->
            [name |-> <<Letter(i), ".", "j", "p", "g">>, type |-> "image/jpeg",
             size |-> 1000 + i, width |-> 3000, height |-> 2000]
      [] kind = "text" ->
            [name |-> <<Letter(i), ".", "t", "x", "t">>, type |-> "text/plain",
             size |-> 10 + i, width |-> 0, height |-> 0]
      [] kind = "huge" ->
            [name |-> <<Letter(i), ".", "j", "p", "g">>, type |-> "image/jpeg",
             size |-> MAX_FILE_SIZE + i, width |-> 9000, height |-> 6000]
      [] kind = "zip" ->
            [name |-> <<Letter(i), ".", "z", "i", "p">>, type |-> "application/zip",
             size |-> 5000 + i, width |-> 0, height |-> 0, readable |-> TRUE,
             members |-> <<ZipMember(i, 1, "", TRUE),
                           ZipMember(i, 2, "image/png", FALSE),
                           ZipMember(i, 3, "text/plain", FALSE),
                           ZipMember(i, 4, "image/webp", FALSE)>>]
      [] kind = "badzip" ->
            [name |-> <<Letter(i), ".", "z", "i", "p">>, type |-> "application/zip",
             size |-> 5000 + i, width |-> 0, height |-> 0, readable |-> FALSE,
             members |-> <<>>]
      [] kind = "textzip" ->
            [name |-> <<Letter(i), ".", "z", "i", "p">>, type |-> "application/zip",
             size |-> 5000 + i, width |-> 0, height |-> 0, readable |-> TRUE,
             members |-> <<ZipMember(i, 1, "", TRUE),
                           ZipMember(i, 2, "text/plain", FALSE)>>]

\* The uploads: up to MaxUpload files, at most MaxArchives of them archives.
UploadLists ==
    UNION {{[i \in 1..n |-> UploadFile(kinds[i], i)] :
               kinds \in {k \in [1..n -> UploadKinds] :
                            Cardinality({i \in 1..n : k[i] \in {"zip", "badzip", "textzip"}}) <= MaxArchives}} :
              n \in 1..MaxUpload}

InitIntake ==
    /\ appState = "upload"
    /\ imageFiles = <<>>
    /\ completionData = <<>>
    /\ settings = DefaultSettings
    /\ aiSuggestion = <<>>
    /\ liveUrls = {}
    /\ nextUrl = 1
    /\ opt = IdleOpt
    /\ intake = IdleIntake
    /\ calc = IdleCalc
    /\ ai = IdleAi
    /\ naming = IdleNaming
    /\ loads = <<>>

NextIntake ==
    \/ \E fileList \in UploadLists : HandleFileProcessing(fileList)
    \/ ZipExtracted
    \/ \E i \in 1..(MaxUpload + MaxArchives) : IntakeImageLoaded(i)
    \/ \E i \in 1..(MaxUpload + MaxArchives) : IntakeImageError(i)
    \/ HandleReset

SpecIntake == InitIntake /\ [][NextIntake]_vars

(***************************************************************************)
(* Properties of intake, checked under SpecIntake.                         *)
(***************************************************************************)
IntakeStatus(i) == intake.items[i].status

IntakeLoading == {i \in 1..Len(intake.items) : IntakeStatus(i) = "loading"}

IntakeFailed == {i \in 1..Len(intake.items) : IntakeStatus(i) = "failed"}

IntakeLoadedOk == {i \in 1..Len(intake.items) : IntakeStatus(i) = "ok"}

\* C5: every handle acquired for a record during an upload batch is released,
\* also when intake fails after some records have acquired theirs: once
\* intake has failed and nothing is loading any more, and the application is
\* back in 'upload' with no records, no object URL is live.
C5_NoHandleLeaked ==
    (appState = "upload" /\ imageFiles = <<>> /\ IntakeLoading = {}) => liveUrls = {}

\* C9 as claimed: intake fails only if no usable image remains; when at least
\* one uploaded image loads, intake does not fail.
C9_FailsOnlyWhenNothingUsable ==
    intake.pc = "rejected" => IntakeLoadedOk = {}

\* C9 as amended: intake fails if no file of a supported type remains after
\* filtering, and also whenever one of the remaining files fails to load; it
\* returns records, one per remaining file and at least one, exactly when
\* every remaining file has loaded.
C9_FailsWhenEmptyOrAnyLoadFails ==
    /\ intake.pc = "rejected"
          => \/ Len(intake.processedFiles) = 0 /\ intake.error[1].kind = "noCompatible"
             \/ IntakeFailed # {} /\ intake.error[1].kind = "image"
    /\ (intake.pc \in {"loading", "resolved"} \/ IntakeFailed # {})
          => Len(intake.processedFiles) >= 1
    /\ IntakeFailed # {} => intake.pc = "rejected"
    /\ intake.pc = "resolved"
          => /\ IntakeLoadedOk = 1..Len(intake.processedFiles)
             /\ Len(intake.processedFiles) >= 1
             /\ appState = "summary" => Len(imageFiles) = Len(intake.processedFiles)

C9_Witness ==
    /\ intake.pc = "rejected" /\ IntakeFailed # {} /\ IntakeLoadedOk # {}
    /\ IntakeLoading = {}

\* C10 as claimed: a single image that fails to decode is skipped and the
\* remaining images are returned as records.
C10_CorruptImageSkipped ==
    (IntakeLoading = {} /\ Cardinality(IntakeFailed) = 1 /\ IntakeLoadedOk # {})
        => (intake.pc = "resolved" /\ Len(imageFiles) = Cardinality(IntakeLoadedOk))

\* C10 as amended: a single image that fails to decode is not skipped: it
\* makes intake fail with that image's error (file name, position, stage
\* 'loading'), no record is delivered and the application is back in
\* 'upload', however many other images have loaded.
C10_CorruptImageFailsIntake ==
    IntakeFailed # {}
        => /\ intake.pc = "rejected"
           /\ intake.error[1].kind = "image"
           /\ intake.error[1].index \in IntakeFailed
           /\ intake.error[1].fileName = intake.processedFiles[intake.error[1].index].name
           /\ intake.error[1].stage = "loading"
           /\ imageFiles = <<>>
           /\ appState = "upload"

C10_Witness ==
    /\ Cardinality(IntakeFailed) = 1 /\ Cardinality(IntakeLoadedOk) >= 2
    /\ IntakeLoading = {} /\ intake.pc = "rejected"

\* The positions of the upload list, by what stands there.
UploadPositions == 1..Len(intake.fileList)

DirectAt == {q \in UploadPositions : intake.fileList[q].type \in SUPPORTED_IMAGE_TYPES}

ArchiveAt == {q \in UploadPositions : intake.fileList[q].type = "application/zip"}

UnreadableAt == {q \in ArchiveAt : ~intake.fileList[q].readable}

\* The names of the supported image members of the archive at position q, in
\* the archive's enumeration order.
RECURSIVE MemberImageNames(_)
MemberImageNames(members) ==
    IF members = <<>> THEN <<>>
    ELSE (IF Head(members).dir \/ Head(members).type \notin SUPPORTED_IMAGE_TYPES
          THEN <<>> ELSE <<Head(members).name>>) \o MemberImageNames(Tail(members))

YieldAt(q) ==
    IF q \in DirectAt THEN <<intake.fileList[q].name>>
    ELSE IF q \in ArchiveAt \ UnreadableAt THEN MemberImageNames(intake.fileList[q].members)
    ELSE <<>>

ScanDone == intake.pc \in {"loading", "resolved", "rejected"}

ProcessedNames == [k \in 1..Len(intake.processedFiles) |-> intake.processedFiles[k].name]

RecordNames == [k \in 1..Len(imageFiles) |-> imageFiles[k].name]

Delivered == intake.pc = "resolved" /\ appState = "summary"

\* C11: an archive that cannot be read contributes no image and does not end
\* the scan of the upload: every file before and after it is still looked at,
\* every directly uploaded image and every image of a readable archive is
\* among the processed files, nothing else is, and when intake delivers its
\* records there is one record for each of them.
C11_UnreadableArchiveDoesNotAbort ==
    (UnreadableAt # {} /\ ScanDone)
        => /\ intake.cursor = Len(intake.fileList) + 1
           /\ \A q \in UploadPositions :
                 \A p \in 1..Len(YieldAt(q)) :
                    \E k \in 1..Len(ProcessedNames) : ProcessedNames[k] = YieldAt(q)[p]
           /\ \A k \in 1..Len(ProcessedNames) :
                 \E q \in UploadPositions \ UnreadableAt :
                    \E p \in 1..Len(YieldAt(q)) : ProcessedNames[k] = YieldAt(q)[p]
           /\ Delivered => RecordNames = ProcessedNames

C11_Witness ==
    /\ Delivered
    /\ Len(intake.fileList) = 3 /\ UnreadableAt = {2} /\ DirectAt = {1, 3}
    /\ Len(imageFiles) = 2

\* C12: when the upload holds no file of a supported image type and no
\* archive yielding one, intake fails with the no-compatible-images error: no
\* file is processed, no record and no completion data exists, no object URL
\* was ever created, and the application is back in 'upload'.
C12_NoCompatibleContentFails ==
    (intake.pc # "idle" /\ \A q \in UploadPositions : YieldAt(q) = <<>>)
        => /\ liveUrls = {} /\ nextUrl = 1
           /\ imageFiles = <<>> /\ completionData = <<>>
           /\ intake.processedFiles = <<>> /\ intake.items = <<>>
           /\ intake.pc \in {"scanning", "rejected"}
           /\ intake.pc = "scanning" => appState = "processing"
           /\ intake.pc = "rejected"
                 => /\ intake.error = <<NoCompatibleError>>
                    /\ appState = "upload"

C12_Witness ==
    /\ intake.pc = "rejected" /\ appState = "upload"
    /\ Len(intake.fileList) = 1 /\ intake.fileList[1].type = "text/plain"
    /\ intake.error[1].kind = "noCompatible"

\* C13 as claimed: in the delivered records every image extracted from an
\* archive stands after all directly uploaded images.
C13_ArchiveImagesAfterDirect ==
    Delivered
        => \A i \in 1..Len(imageFiles), j \in 1..Len(imageFiles) :
              (/\ \E q \in DirectAt : imageFiles[i].name = intake.fileList[q].name
               /\ \A q \in DirectAt : imageFiles[j].name # intake.fileList[q].name)
                 => i < j

\* The images of the upload list from position q on, in upload order, each
\* archive's images standing at the archive's position.
RECURSIVE YieldFrom(_)
YieldFrom(q) == IF q > Len(intake.fileList) THEN <<>> ELSE YieldAt(q) \o YieldFrom(q + 1)

\* C13 as amended: the records are in the order of the upload list: directly
\* uploaded images keep their relative order, and the images of an archive
\* stand at the archive's position in the list, in the archive's own
\* enumeration order (before the direct images uploaded after the archive).
C13_RecordsInUploadOrder ==
    /\ ScanDone => ProcessedNames = YieldFrom(1)
    /\ Delivered => RecordNames = YieldFrom(1)

C13_Witness ==
    /\ Delivered
    /\ 1 \in ArchiveAt /\ 2 \in DirectAt
    /\ Len(imageFiles) >= 3
    /\ imageFiles[Len(YieldAt(1)) + 1].name = intake.fileList[2].name

JsonReply(reasoning, format, qualityType, quality, maxWidthType, maxWidth2) ==
    [kind |-> "json", reasoning |-> reasoning, format |-> format,
     qualityType |-> qualityType, quality |-> quality,
     maxWidthType |-> maxWidthType, maxWidth2 |-> maxWidth2]

\* What generateContent can bring: a failure, a text without JSON, replies
\* that conform (also with an upper-case format, a fractional width, padded
\* reasoning) and replies with one field missing or out of range.
AiReplies ==
    {[kind |-> "fails"], [kind |-> "nothing"],
     JsonReply("photo", "jpeg", "number", 90, "number", 2560),
     JsonReply(" photo ", "PNG", "number", 100, "number", 2561),
     JsonReply("photo", "webp", "number", 10, "number", 200),
     JsonReply("", "webp", "number", 90, "number", 2560),
     JsonReply("photo", "", "number", 90, "number", 2560),
     JsonReply("photo", "GIF", "number", 90, "number", 2560),
     JsonReply("photo", "webp", "number", 140, "number", 2560),
     JsonReply("photo", "webp", "number", 5, "number", 2560),
     JsonReply("photo", "webp", "string", 0, "number", 2560),
     JsonReply("photo", "webp", "undefined", 0, "number", 2560),
     JsonReply("photo", "webp", "number", 90, "number", 199),
     JsonReply("photo", "webp", "number", 90, "number", 8001),
     JsonReply("photo", "webp", "number", 90, "undefined", 0)}

\* The edits of the form: the format select, the quality slider (0.1 to 1)
\* and the width input (0 when emptied).
FormEdits ==
    {<<"format", "jpeg">>, <<"format", "png">>, <<"quality", 50>>, <<"maxWidth", 800>>,
     <<"maxWidth", 0>>}

InitSuggest ==
    /\ appState = "summary"
    /\ \E n \in 1..2 : imageFiles = [i \in 1..n |-> ImageFileOf(InputFile("photos", i), i)]
    /\ completionData = <<>>
    /\ settings = DefaultSettings
    /\ aiSuggestion = <<>>
    /\ liveUrls = {imageFiles[i].objectUrl : i \in 1..Len(imageFiles)}
    /\ nextUrl = Len(imageFiles) + 1
    /\ opt = IdleOpt
    /\ intake = IdleIntake
    /\ calc = IdleCalc
    /\ \E key \in BOOLEAN : ai = [IdleAi EXCEPT !.apiKey = key]
    /\ naming = IdleNaming
    /\ loads = <<>>

NextSuggest ==
    \/ \E e \in FormEdits : handleSettingChange(e[1], e[2])
    \/ HandleGetAiSuggestion
    \/ DelayElapsed
    \/ ThumbnailLoaded
    \/ ThumbnailError
    \/ ThumbnailBlob
    \/ PartRead
    \/ \E reply \in AiReplies : ResponseArrives(reply)

SpecSuggest == InitSuggest /\ [][NextSuggest]_vars

(***************************************************************************)
(* Properties of the suggestion request, checked under SpecSuggest.        *)
(***************************************************************************)
\* A reply that conforms: reasoning present, format one of jpeg/png/webp in
\* any case, quality a number in [0.1, 1], maxWidth a number in [100, 4000].
Conforms(reply) ==
    /\ reply.kind = "json"
    /\ reply.reasoning # ""
    /\ reply.format \in {"jpeg", "png", "webp", "PNG", "WebP"}
    /\ reply.qualityType = "number" /\ reply.quality >= 10 /\ reply.quality <= 100
    /\ reply.maxWidthType = "number" /\ reply.maxWidth2 >= 200 /\ reply.maxWidth2 <= 8000

\* The request has ended without a usable reply: no API key, a failure of the
\* thumbnail, the read or the service, no JSON, or a reply that does not
\* conform.
NoUsableReply ==
    /\ ai.pc = "settled"
    /\ \/ ai.cause \in {"noKey", "thumbnail", "read", "service"}
       \/ ai.cause = "reply" /\ ~Conforms(ai.response[1])

\* C14 as claimed: when a request ends without a usable reply it is 'no
\* suggestion': the settings keep the values they had before the request, no
\* suggestion is recorded and the application is back in 'summary'.
C14_NoSuggestionKeepsSettings ==
    [][(ai.pc # "settled" /\ NoUsableReply')
          => /\ settings' = ai'.settingsBefore
             /\ aiSuggestion' = <<>>
             /\ appState' = "summary"]_vars

\* C14 as amended: a request that ends without a usable reply never fails
\* and ends in 'summary', but it is treated as the default suggestion, not as
\* no suggestion: format, quality and maxWidth are set to webp, 0.85 and 1920
\* whatever they were before the request, and the default suggestion is
\* recorded; a conforming reply is applied with its own (normalized) values.
C14_DefaultSuggestionApplied ==
    [][(ai.pc # "settled" /\ ai'.pc = "settled")
          => /\ appState = "optimizing_ai" /\ appState' = "summary"
             /\ settings = ai.settingsBefore
             /\ Len(aiSuggestion') = 1
             /\ settings' = [format |-> aiSuggestion'[1].format,
                             quality |-> aiSuggestion'[1].quality,
                             maxWidth |-> aiSuggestion'[1].maxWidth]
             /\ NoUsableReply'
                   => /\ aiSuggestion'[1] = DEFAULT_SUGGESTION
                      /\ settings' = [format |-> "webp", quality |-> 85, maxWidth |-> 1920]
             /\ ~NoUsableReply'
                   => LET r == ai'.response[1]
                      IN /\ aiSuggestion'[1].format \in {"jpeg", "png", "webp"}
                         /\ aiSuggestion'[1].quality = r.quality
                         /\ 2 * aiSuggestion'[1].maxWidth \in {r.maxWidth2, r.maxWidth2 + 1}
             /\ UNCHANGED <<imageFiles, completionData>>]_vars

C14_Witness ==
    /\ NoUsableReply /\ ai.cause = "reply" /\ ai.response[1].kind = "json"
    /\ ai.settingsBefore.format = "png" /\ ai.settingsBefore.maxWidth = 800
    /\ settings = DefaultSettings
    /\ aiSuggestion = <<DEFAULT_SUGGESTION>>
    /\ appState = "summary"

NameParts ==
    {<<"a">>, <<"b">>, <<".">>, OptimizedMarker,
     FormatChars("jpeg"), FormatChars("png"), FormatChars("webp")}

RECURSIVE NamesOfParts(_)
NamesOfParts(k) ==
    IF k = 0 THEN {<<>>}
    ELSE NamesOfParts(k - 1) \cup {n \o part : n \in NamesOfParts(k - 1), part \in NameParts}

FileNames == NamesOfParts(MaxNameParts) \ {<<>>}

InitNames ==
    /\ appState = "upload"
    /\ imageFiles = <<>>
    /\ completionData = <<>>
    /\ settings = DefaultSettings
    /\ aiSuggestion = <<>>
    /\ liveUrls = {}
    /\ nextUrl = 1
    /\ opt = IdleOpt
    /\ intake = IdleIntake
    /\ calc = IdleCalc
    /\ ai = IdleAi
    /\ \E name \in FileNames, format \in {"jpeg", "png", "webp"} :
          naming = [IdleNaming EXCEPT !.originalName = name, !.format = format]
    /\ loads = <<>>

GenerateName ==
    /\ ~naming.done
    /\ naming' = [naming EXCEPT
                     !.done = TRUE,
                     !.fileName = generateOptimizedFileName(naming.originalName, naming.format)]
    /\ UNCHANGED <<appState, imageFiles, completionData, settings, aiSuggestion,
                   liveUrls, nextUrl, opt, intake, calc, ai, loads>>

NextNames == GenerateName

SpecNames == InitNames /\ [][NextNames]_vars

(***************************************************************************)
(* Properties of generateOptimizedFileName, checked under SpecNames.       *)
(***************************************************************************)
HasDot(name) == \E i \in 1..Len(name) : name[i] = "."

\* The name without its extension: the name up to its last dot, and the
\* whole name when it has no dot.
WithoutExtension(name) ==
    IF HasDot(name)
    THEN SubSeq(name, 1, (CHOOSE i \in 1..Len(name) :
                             name[i] = "." /\ \A j \in (i + 1)..Len(name) : name[j] # ".") - 1)
    ELSE name

\* C16: the member name is the original name without its extension, followed
\* by '-optimized.' and the target format, also for names with several dots
\* and for names without extension.
C16_StemMarkerFormat ==
    naming.done
        => naming.fileName = WithoutExtension(naming.originalName) \o OptimizedMarker
                                \o FormatChars(naming.format)

\* C20: the generated member name is never equal to the original name.
C20_NeverTheOriginalName ==
    naming.done => naming.fileName # naming.originalName

C20_Witness ==
    /\ naming.done
    /\ naming.originalName = <<"a">> \o OptimizedMarker \o FormatChars(naming.format)
    /\ naming.fileName # naming.originalName

(***************************************************************************)
(* Specification SpecRetry: handleOptimize on a small batch, clicked again *)
(* after a failure, up to MaxAttempts times.                               *)
(***************************************************************************)
InitRetry ==
    /\ appState = "summary"
    /\ \E n \in 1..MaxRetryFiles, in \in OptInputs :
          /\ imageFiles = [i \in 1..n |-> ImageFileOf(InputFile(in.kind, i), i)]
          /\ settings = in.settings
    /\ completionData = <<>>
    /\ aiSuggestion = <<>>
    /\ liveUrls = {imageFiles[i].objectUrl : i \in 1..Len(imageFiles)}
    /\ nextUrl = Len(imageFiles) + 1
    /\ opt = [IdleOpt EXCEPT !.clicks = MaxAttempts]
    /\ intake = IdleIntake
    /\ calc = IdleCalc
    /\ ai = IdleAi
    /\ naming = IdleNaming
    /\ loads = <<>>

NextRetry ==
    \/ HandleOptimize
    \/ \E i \in 1..MaxRetryFiles : ItemLoaded(i)
    \/ \E i \in 1..MaxRetryFiles : ItemLoadError(i)
    \/ \E i \in 1..MaxRetryFiles : ItemBlob(i)
    \/ \E url \in 1..(MaxRetryFiles * (MaxAttempts + 1)) : OrphanLoadSettles(url)
    \/ ZipGenerated

SpecRetry == InitRetry /\ [][NextRetry]_vars

(***************************************************************************)
(* Properties of a failed optimization, checked under SpecRetry.           *)
(***************************************************************************)
RecordUrls == {imageFiles[i].objectUrl : i \in 1..Len(imageFiles)}

AttemptsMade == MaxAttempts - opt.clicks

\* C18: a failed optimization is not retried by itself and leaves what a
\* retry needs: once an item has failed the call is rejected and stays so,
\* each call has started every item once and no more; the record list and
\* the settings are those the call was given, every record's object URL is
\* still live (besides them only temporary URLs of loads still running),
\* there is no archive and no completion data, and the application is in
\* 'summary', where handleOptimize can be invoked again.
C18_FailureLeavesInputsForRetry ==
    /\ Failed # {} => opt.pc = "rejected"
    /\ opt.pc = "rejected"
          => /\ appState = "summary"
             /\ imageFiles = opt.files
             /\ settings = opt.settings
             /\ completionData = <<>> /\ opt.blob = <<>>
             /\ RecordUrls \subseteq liveUrls
             /\ liveUrls = RecordUrls \cup LoadingUrls(opt) \cup opt.orphans
             /\ nextUrl = Len(imageFiles) + 1 + AttemptsMade * Len(imageFiles)
             /\ opt.clicks > 0 => ENABLED HandleOptimize

C18_Witness ==
    /\ opt.pc = "rejected" /\ AttemptsMade = 2
    /\ opt.orphans # {} /\ LoadingUrls(opt) # {}
    /\ appState = "summary"

(***************************************************************************)
(* loadImageFromFile called on its own.  A call is a record holding the    *)
(* file, the promise's state, the object URL it created (0 for none), the  *)
(* rejection's error and the events of the call in the order the code      *)
(* performs them.                                                          *)
(***************************************************************************)
\* Mutant: the object URL is created before the file is validated.
loadImageFromFileCreatesFirst(file, next) ==
    IF ~isValidImageType(file) \/ ~isValidFileSize(file)
    THEN [file |-> file, pc |-> "rejected", objectUrl |-> next,
          error |-> <<[fileName |-> file.name, stage |-> "loading"]>>,
          events |-> <<"create", "reject">>]
    ELSE [file |-> file, pc |-> "loading", objectUrl |-> next, error |-> <<>>,
          events |-> <<"create">>]

\* loadImageFromFile up to `image.src = objectUrl`: a file of an unsupported
\* type or above the size limit rejects the promise at once; for any other
\* file the object URL is created and the image starts loading.
loadImageFromFile(file, next) ==
    IF ~isValidImageType(file)
    THEN [file |-> file, pc |-> "rejected", objectUrl |-> 0,
          error |-> <<[fileName |-> file.name, stage |-> "loading"]>>,
          events |-> <<"reject">>]
    ELSE IF ~isValidFileSize(file)
    THEN [file |-> file, pc |-> "rejected", objectUrl |-> 0,
          error |-> <<[fileName |-> file.name, stage |-> "loading"]>>,
          events |-> <<"reject">>]
    ELSE [file |-> file, pc |-> "loading", objectUrl |-> next, error |-> <<>>,
          events |-> <<"create">>]

\* Mutant: the load handler resolves without the cleanup.
onloadWithoutCleanup(call) ==
    [call EXCEPT !.pc = "resolved", !.events = call.events \o <<"resolve">>]

\* image.onload: cleanup(), then resolve(image).
onload(call) ==
    [call EXCEPT !.pc = "resolved", !.events = call.events \o <<"revoke", "resolve">>]

\* image.onerror: cleanup(), then reject(createProcessingError(..., 'loading')).
onerror(call) ==
    [call EXCEPT !.pc = "rejected",
                 !.error = <<[fileName |-> call.file.name, stage |-> "loading"]>>,
                 !.events = call.events \o <<"revoke", "reject">>]

\* URL.revokeObjectURL for every "revoke" among the events a handler added.
RevokedBy(before, after) ==
    IF \E p \in (Len(before.events) + 1)..Len(after.events) : after.events[p] = "revoke"
    THEN {after.objectUrl}
    ELSE {}

\* A call of loadImageFromFile.
LoadImageFromFile(file) ==
    /\ Len(loads) < MaxLoads
    /\ LET call == loadImageFromFile(file, nextUrl)
       IN /\ loads' = Append(loads, call)
          /\ liveUrls' = IF call.objectUrl # 0 THEN liveUrls \cup {call.objectUrl} ELSE liveUrls
          /\ nextUrl' = IF call.objectUrl # 0 THEN nextUrl + 1 ELSE nextUrl
    /\ UNCHANGED <<appState, imageFiles, completionData, settings, aiSuggestion,
                   opt, intake, calc, ai, naming>>

\* The image of call i has been decoded.
ImageOnload(i) ==
    /\ i \in 1..Len(loads)
    /\ loads[i].pc = "loading"
    /\ loads' = [loads EXCEPT ![i] = onload(loads[i])]
    /\ liveUrls' = liveUrls \ RevokedBy(loads[i], loads'[i])
    /\ UNCHANGED <<appState, imageFiles, completionData, settings, aiSuggestion,
                   nextUrl, opt, intake, calc, ai, naming>>

\* The image of call i cannot be decoded.
ImageOnerror(i) ==
    /\ i \in 1..Len(loads)
    /\ loads[i].pc = "loading"
    /\ loads' = [loads EXCEPT ![i] = onerror(loads[i])]
    /\ liveUrls' = liveUrls \ RevokedBy(loads[i], loads'[i])
    /\ UNCHANGED <<appState, imageFiles, completionData, settings, aiSuggestion,
                   nextUrl, opt, intake, calc, ai, naming>>

(***************************************************************************)
(* Specification SpecLoad: up to MaxLoads concurrent calls of              *)
(* loadImageFromFile on files of supported and unsupported types, below,   *)
(* at and above the size limit.                                            *)
(***************************************************************************)
LoadFiles ==
    {[name |-> <<"a", ".", "j", "p", "g">>, type |-> type, size |-> size,
      width |-> 640, height |-> 480] :
        type \in {"image/jpeg", "image/gif", "text/plain", ""},
        size \in {1000, MAX_FILE_SIZE, MAX_FILE_SIZE + 1}}

InitLoad ==
    /\ appState = "upload"
    /\ imageFiles = <<>>
    /\ completionData = <<>>
    /\ settings = DefaultSettings
    /\ aiSuggestion = <<>>
    /\ liveUrls = {}
    /\ nextUrl = 1
    /\ opt = IdleOpt
    /\ intake = IdleIntake
    /\ calc = IdleCalc
    /\ ai = IdleAi
    /\ naming = IdleNaming
    /\ loads = <<>>

NextLoad ==
    \/ \E file \in LoadFiles : LoadImageFromFile(file)
    \/ \E i \in 1..MaxLoads : ImageOnload(i)
    \/ \E i \in 1..MaxLoads : ImageOnerror(i)

SpecLoad == InitLoad /\ [][NextLoad]_vars

(***************************************************************************)
(* Properties of loadImageFromFile, checked under SpecLoad.                *)
(***************************************************************************)
\* How often the event occurs among the first n events of the call.
RECURSIVE CountEvents(_, _, _)
CountEvents(call, event, n) ==
    IF n = 0 THEN 0
    ELSE CountEvents(call, event, n - 1) + (IF call.events[n] = event THEN 1 ELSE 0)

\* The file is one loadImageFromFile rejects: its type is not a supported
\* image type or its size is above 50 MB.
RejectedFile(file) ==
    \/ file.type \notin {"image/jpeg", "image/png", "image/webp", "image/gif"}
    \/ file.size > 50 * 1024 * 1024

\* C29: a call of loadImageFromFile on a file of unsupported type or above
\* 50 MB creates no object URL and is rejected; a call on any other file
\* creates one object URL, which is live while the image loads and is revoked
\* exactly once, as the event just before the promise is resolved or rejected.
C29_TemporaryUrlReleasedOnce ==
    \A i \in 1..Len(loads) :
       LET call == loads[i]
           n == Len(call.events)
       IN IF RejectedFile(call.file)
          THEN /\ call.pc = "rejected" /\ call.objectUrl = 0
               /\ CountEvents(call, "create", n) = 0
               /\ call.error = <<[fileName |-> call.file.name, stage |-> "loading"]>>
          ELSE /\ CountEvents(call, "create", n) = 1 /\ call.events[1] = "create"
               /\ call.objectUrl # 0
               /\ \A j \in 1..Len(loads) : j # i => loads[j].objectUrl # call.objectUrl
               /\ call.pc = "loading"
                     => CountEvents(call, "revoke", n) = 0 /\ call.objectUrl \in liveUrls
               /\ call.pc \in {"resolved", "rejected"}
                     => /\ CountEvents(call, "revoke", n) = 1
                        /\ n = 3 /\ call.events[2] = "revoke"
                        /\ call.events[3] = (IF call.pc = "resolved" THEN "resolve" ELSE "reject")
                        /\ call.objectUrl \notin liveUrls

C29_Witness ==
    /\ Len(loads) = 2
    /\ loads[1].file.size = MAX_FILE_SIZE + 1 /\ loads[1].pc = "rejected"
    /\ loads[1].file.type = "image/jpeg" /\ loads[1].objectUrl = 0
    /\ loads[2].file.size = MAX_FILE_SIZE /\ loads[2].pc = "resolved"
    /\ loads[2].events = <<"create", "revoke", "resolve">>
    /\ liveUrls = {}

(***************************************************************************)
(* Specification SpecApp: the application from its first render, through   *)
(* uploads, edits of the form, suggestion requests, optimization runs and  *)
(* resets.  The user uploads, asks for a suggestion or clicks Optimize     *)
(* MaxAppOps times in all.                                                 *)
(***************************************************************************)
\* The uploads: two images, a text file only, and an image with an image
\* above the size limit.
AppUploads ==
    {<<UploadFile("jpeg", 1), UploadFile("jpeg", 2)>>,
     <<UploadFile("text", 1)>>,
     <<UploadFile("jpeg", 1), UploadFile("huge", 2)>>}

\* What generateContent brings: a failure and a conforming reply.
AppReplies ==
    {[kind |-> "fails"], JsonReply("photo", "jpeg", "number", 90, "number", 2560)}

\* The edit of the form: the width input, emptied.
AppEdits == {<<"maxWidth", 0>>}

\* The object URLs the platform can hand out within the budget.
AppUrls == 1..(6 * MaxAppOps)

\* The uploads, suggestion requests and clicks on Optimize made so far.
OpsUsed ==
    (MaxAppOps - intake.uploads) + (MaxAppOps - opt.clicks)
       + (ai.requests - (MaxRequests - MaxAppOps))

\* The user's operations, within the budget.
AppUpload(fileList) == OpsUsed < MaxAppOps /\ HandleFileProcessing(fileList)

AppGetAiSuggestion == OpsUsed < MaxAppOps /\ HandleGetAiSuggestion

AppOptimize == OpsUsed < MaxAppOps /\ HandleOptimize

InitApp ==
    /\ appState = "upload"
    /\ imageFiles = <<>>
    /\ completionData = <<>>
    /\ settings = DefaultSettings
    /\ aiSuggestion = <<>>
    /\ liveUrls = {}
    /\ nextUrl = 1
    /\ opt = [IdleOpt EXCEPT !.clicks = MaxAppOps]
    /\ intake = [IdleIntake EXCEPT !.uploads = MaxAppOps]
    /\ calc = IdleCalc
    /\ ai = [IdleAi EXCEPT !.apiKey = TRUE, !.requests = MaxRequests - MaxAppOps]
    /\ naming = IdleNaming
    /\ loads = <<>>

NextApp ==
    \/ \E fileList \in AppUploads : AppUpload(fileList)
    \/ \E i \in 1..MaxFiles : IntakeImageLoaded(i)
    \/ \E i \in 1..MaxFiles : IntakeImageError(i)
    \/ \E url \in AppUrls : IntakeOrphanLoaded(url)
    \/ \E url \in AppUrls : IntakeOrphanError(url)
    \/ \E e \in AppEdits : handleSettingChange(e[1], e[2])
    \/ AppGetAiSuggestion
    \/ ThumbnailLoaded
    \/ ThumbnailError
    \/ ThumbnailBlob
    \/ PartRead
    \/ \E reply \in AppReplies : ResponseArrives(reply)
    \/ AppOptimize
    \/ \E i \in 1..MaxFiles : ItemLoaded(i)
    \/ \E i \in 1..MaxFiles : ItemLoadError(i)
    \/ \E i \in 1..MaxFiles : ItemBlob(i)
    \/ \E url \in AppUrls : OrphanLoadSettles(url)
    \/ ZipGenerated
    \/ HandleReset

SpecApp == InitApp /\ [][NextApp]_vars

(***************************************************************************)
(* Properties of the application, checked under SpecApp.                   *)
(***************************************************************************)
\* The call the App awaits has not settled.
IntakeInFlight == intake.pc \in {"scanning", "loading"}

AiInFlight == ai.pc \in {"delay", "thumbnail", "thumbBlob", "reading", "generating"}

OptInFlight == opt.pc \in {"running", "generating"}

\* C24: while a record is in the record list (states 'summary',
\* 'optimizing_ai', 'optimizing', 'completed'), its object URL is live, in
\* every sequence of uploads, suggestion requests, optimization runs and
\* resets; outside these states the list is empty.
C24_ListedRecordsHaveLiveHandles ==
    /\ \A i \in 1..Len(imageFiles) :
          /\ imageFiles[i].objectUrl \in liveUrls
          /\ appState \in {"summary", "optimizing_ai", "optimizing", "completed"}
    /\ \A i \in 1..Len(imageFiles), j \in 1..Len(imageFiles) :
          i # j => imageFiles[i].objectUrl # imageFiles[j].objectUrl

C24_Witness ==
    /\ appState = "completed"
    /\ intake.uploads = MaxAppOps - 2 /\ intake.orphans = {}
    /\ Len(imageFiles) = 2
    /\ \A i \in 1..2 : imageFiles[i].objectUrl \in liveUrls
    /\ Cardinality(liveUrls) = 3

\* C25: at most one of intake, suggestion and optimization is awaited at
\* any time, it is awaited exactly in its loading state, and in the loading
\* states 'processing', 'optimizing_ai' and 'optimizing' the upload, the
\* suggestion request, Optimize, Reset and the form's edits are all disabled.
C25_OneOperationAtATime ==
    /\ ~(IntakeInFlight /\ AiInFlight) /\ ~(IntakeInFlight /\ OptInFlight)
    /\ ~(AiInFlight /\ OptInFlight)
    /\ IntakeInFlight <=> appState = "processing"
    /\ AiInFlight <=> appState = "optimizing_ai"
    /\ OptInFlight <=> appState = "optimizing"
    /\ appState \in {"processing", "optimizing_ai", "optimizing"}
          => /\ ~ENABLED (\E fileList \in AppUploads : HandleFileProcessing(fileList))
             /\ ~ENABLED HandleGetAiSuggestion
             /\ ~ENABLED HandleOptimize
             /\ ~ENABLED HandleReset
             /\ ~ENABLED (\E e \in AppEdits : handleSettingChange(e[1], e[2]))

C25_Witness ==
    /\ appState = "optimizing_ai" /\ AiInFlight
    /\ opt.pc = "rejected" /\ LoadingUrls(opt) # {}
    /\ opt.clicks > 0 /\ intake.uploads > 0

\* C26: the step at which the awaited operation settles leaves the loading
\* state: intake leaves 'processing' for 'summary' (resolved) or 'upload'
\* (rejected), the suggestion leaves 'optimizing_ai' for 'summary' however it
\* ends, optimization leaves 'optimizing' for 'completed' (resolved) or
\* 'summary' (rejected or no result); no other step leaves a loading state.
C26_LoadingStateLeftWhenSettled ==
    [][/\ appState = "processing"
          => IF IntakeInFlight'
             THEN appState' = "processing"
             ELSE appState' = (IF intake'.pc = "resolved" THEN "summary" ELSE "upload")
       /\ appState = "optimizing_ai"
          => IF AiInFlight' THEN appState' = "optimizing_ai" ELSE appState' = "summary"
       /\ appState = "optimizing"
          => IF OptInFlight'
             THEN appState' = "optimizing"
             ELSE appState' = (IF opt'.pc = "resolved" THEN "completed" ELSE "summary")]_vars

C26_Witness ==
    /\ appState = "summary"
    /\ intake.pc = "resolved" /\ ai.pc = "settled" /\ ai.cause = "thumbnail"
    /\ opt.pc = "rejected"

\* The sum of the sizes of the first n records.
RECURSIVE SizeOfRecords(_)
SizeOfRecords(n) == IF n = 0 THEN 0 ELSE SizeOfRecords(n - 1) + imageFiles[n].size

\* C27: in 'summary', 'optimizing_ai' and 'optimizing' the record list is
\* not empty; in 'completed' the completion data is set, its fileCount is the
\* number of records and its initialSize the sum of their sizes; in 'upload'
\* the record list is empty and the completion data unset.
C27_StateDataConsistent ==
    /\ appState \in {"summary", "optimizing_ai", "optimizing"} => Len(imageFiles) > 0
    /\ appState = "completed"
          => /\ Len(completionData) = 1
             /\ completionData[1].fileCount = Len(imageFiles)
             /\ completionData[1].initialSize = SizeOfRecords(Len(imageFiles))
    /\ appState = "upload" => imageFiles = <<>> /\ completionData = <<>>

C27_Witness ==
    /\ appState = "completed"
    /\ Len(imageFiles) = 2
    /\ completionData[1].fileCount = 2
    /\ completionData[1].initialSize = 2003
    /\ ai.pc = "settled" /\ aiSuggestion # <<>>

\* C28: a reset, from 'summary' or from 'completed', releases the object
\* URL of every record of the list and leaves the application in 'upload'
\* with an empty list, no suggestion, no completion data and the settings
\* 0.85 / 1920 / webp, whatever the settings were; Reset is enabled exactly
\* in 'summary' and 'completed'.
C28_ResetRestoresInitialState ==
    [][/\ (appState # "upload" /\ appState' = "upload" /\ ~IntakeInFlight)
          => /\ appState \in {"summary", "completed"}
             /\ \A i \in 1..Len(imageFiles) : imageFiles[i].objectUrl \notin liveUrls'
             /\ imageFiles' = <<>>
             /\ aiSuggestion' = <<>>
             /\ completionData' = <<>>
             /\ settings' = [quality |-> 85, maxWidth |-> 1920, format |-> "webp"]
       /\ (ENABLED HandleReset) <=> appState \in {"summary", "completed"}]_vars

C28_Witness ==
    /\ appState = "upload"
    /\ opt.pc = "resolved" /\ opt.settings.format = "jpeg" /\ opt.settings.maxWidth = 1280
    /\ \A i \in 1..Len(opt.files) : opt.files[i].objectUrl \notin liveUrls
    /\ imageFiles = <<>> /\ aiSuggestion = <<>> /\ completionData = <<>>
    /\ settings = DefaultSettings

====
